---- MODULE Spec2Model ----
(***************************************************************************)
(* Totally ordered multicast with Lamport clocks (src/src/process.py,      *)
(* src/src/message.py, src/src/main.py).                                   *)
(*                                                                         *)
(* Two specifications share the process state and the pure operators:      *)
(*   Spec        the group of three processes exchanging unicasts over a   *)
(*               network that reorders freely; every handler runs to its   *)
(*               end in one step.                                          *)
(*   ThreadSpec  one process seen from inside: handler threads, ack timers *)
(*               and the command thread interleave at the granularity of   *)
(*               the critical sections of the four locks; the other group  *)
(*               members are the environment.                              *)
(* Sender names processo1..processo3 are written 1..3: the string order of *)
(* the names is the order of the numbers.  A msg_id "<sender>_<timestamp>" *)
(* is the pair <<sender, timestamp>>.  Message content plays no part in    *)
(* the protocol and is left out.                                           *)
(***************************************************************************)
EXTENDS Integers, Sequences, FiniteSets, TLC

\* ---------------------------------------------------------------- bounds
\* multicasts originated in a run (send_message calls, and in ThreadSpec the
\* multicasts of the other members as well)
MaxSends == 2
\* Spec: the Ack unicasts that may stay in flight, and the ack timers that may
\* stay pending, while the group does anything else (0: an Ack is received
\* by all, and a due timer fires, before the next multicast step or command)
MaxAckBacklog == 0
MaxTimerBacklog == 0

\* ThreadSpec: handler threads alive at once, "pass" commands, the highest
\* timestamp of a multicast, the most an Ack of another
\* member is stamped above the least stamp its sender can give it
MaxHandlers == 2
MaxPass == 1
MaxTs == 1
MaxAckLag == 0
\* ThreadSpec: Acks of the other members in a run, and connections that
\* _serve accepts in a run
MaxEnvAcks == 2
MaxAccepts == 3

\* ------------------------------------------------------ program constants
NumProcs == 3
\* ThreadSpec: the member seen from inside (processo2)
Self == 2
clock_increment == 1

Procs == 1..NumProcs

all_processes == Procs

required_acks == Cardinality(all_processes)

\* ---------------------------------------------------------------- messages
MsgId(sender, timestamp) == <<sender, timestamp>>

Multicast(sender, timestamp) ==
    [msg_id |-> MsgId(sender, timestamp), msg_type |-> "multicast",
     sender |-> sender, timestamp |-> timestamp, original_msg_id |-> <<>>]

Ack(sender, timestamp, original) ==
    [msg_id |-> MsgId(sender, timestamp), msg_type |-> "ack",
     sender |-> sender, timestamp |-> timestamp, original_msg_id |-> original]

\* ------------------------------------------------------------------- state
VARIABLES
    logical_clock,      \* [Procs -> Nat]
    message_queue,      \* [Procs -> Seq(Multicast)]
    acknowledgments,    \* [Procs -> [ids -> SUBSET Procs]], a dict per process
    pending_acks,       \* [Procs -> [ids -> Seq(Ack)]], a dict per process
    network,            \* unicasts in flight: set of [dst, msg]
    timers,             \* scheduled _send_acknowledgment calls: set of [proc, msg]
    delivered,          \* [Procs -> Seq(Multicast)]: the _deliver_message calls, in order
    returned,           \* what the last step returned: NoReturn or [proc, value]
    sent,               \* every multicast broadcast so far (history)
    enqueued,           \* [Procs -> set of msg_id]: every id ever appended to the queue
    acks_emitted,       \* [Procs -> set of msg_id]: targets of the Acks broadcast so far
    used_stamps,        \* ThreadSpec: [Procs -> set of timestamps] each member
                        \* has put on its messages
    threads,            \* ThreadSpec: [handler slot -> thread], the handler threads
    cmd,                \* ThreadSpec: the command thread (the loop of main.py)
    lock_owner,         \* ThreadSpec: [lock -> thread holding it, or Nobody]
    passes,             \* ThreadSpec: "pass" commands so far
    bcast               \* FanoutSpec: [caller -> the _broadcast_message call it is in]

procVars == <<logical_clock, message_queue, acknowledgments, pending_acks>>

histVars == <<delivered, returned, sent, enqueued, acks_emitted>>

threadVars == <<threads, cmd, lock_owner, passes, used_stamps>>

vars == <<procVars, network, timers, histVars, threadVars, bcast>>

NoReturn == [proc |-> 0, value |-> FALSE]

\* ------------------------------------------------------------------- clock
Max(a, b) == IF a >= b THEN a ELSE b

\* an increment that adds nothing
TickNone(c) == c

\* increment_clock / increment_for_delivery: the new clock value
Tick(c) == c + clock_increment

\* an update that takes the received timestamp as it is
ObserveOverwrite(c, received_timestamp) == received_timestamp

\* an update that leaves the clock as it is
ObserveKeep(c, received_timestamp) == c

\* update_clock_on_receive: the new clock value
Observe(c, received_timestamp) == Max(c, received_timestamp)

\* ------------------------------------------------------------------- queue
\* a sort key that is the timestamp alone
KeyLessTimestampOnly(a, b) == a.timestamp < b.timestamp

\* the sort key (m.timestamp, m.sender), compared as Python compares tuples
KeyLess(a, b) ==
    \/ a.timestamp < b.timestamp
    \/ a.timestamp = b.timestamp /\ a.sender < b.sender

\* one pass of a stable sort: m goes behind every element whose key is not greater
RECURSIVE InsertByKey(_, _)
InsertByKey(q, m) ==
    IF q = <<>> THEN <<m>>
    ELSE IF KeyLess(m, Head(q)) THEN <<m>> \o q
    ELSE <<Head(q)>> \o InsertByKey(Tail(q), m)

\* list.sort(key=...): a stable sort of the whole list
RECURSIVE SortQueue(_)
SortQueue(q) ==
    IF q = <<>> THEN <<>>
    ELSE InsertByKey(SortQueue(SubSeq(q, 1, Len(q) - 1)), q[Len(q)])

\* the append without the sort
EnqueueUnsorted(q, m) == Append(q, m)

\* message_queue.append(message); message_queue.sort(...)
Enqueue(q, m) == SortQueue(Append(q, m))

\* ------------------------------------------------------------------- dicts
DictSet(d, k, v) == [x \in DOMAIN d \cup {k} |-> IF x = k THEN v ELSE d[x]]

DictDel(d, k) == [x \in DOMAIN d \ {k} |-> d[x]]

EmptyDict == [x \in {} |-> {}]

\* ------------------------------------------------ acknowledgment handling
\* self.acknowledgments[original_msg_id].add(message.sender)
RecordAck(acks, msg) ==
    DictSet(acks, msg.original_msg_id, acks[msg.original_msg_id] \cup {msg.sender})

\* pending_acks[original_msg_id] = [] when absent, then .append(message)
BufferAck(pend, msg) ==
    DictSet(pend, msg.original_msg_id,
            Append(IF msg.original_msg_id \in DOMAIN pend
                   THEN pend[msg.original_msg_id] ELSE <<>>, msg))

\* _process_acknowledgment run to its end on a process state
\* st = [clock, acks, pend]: observe, tick, then record or buffer
ProcessAcknowledgment(st, msg) ==
    LET c == Tick(Observe(st.clock, msg.timestamp)) IN
    IF msg.original_msg_id \in DOMAIN st.acks
    THEN [clock |-> c, acks |-> RecordAck(st.acks, msg), pend |-> st.pend]
    ELSE [clock |-> c, acks |-> st.acks, pend |-> BufferAck(st.pend, msg)]

\* a replay that records the pending Acks and leaves the clock alone
RECURSIVE ReplayPendingNoClock(_, _)
ReplayPendingNoClock(st, list) ==
    IF list = <<>> THEN st
    ELSE LET r == ProcessAcknowledgment(st, Head(list)) IN
         ReplayPendingNoClock([r EXCEPT !.clock = st.clock], Tail(list))

\* for ack_msg in pending_ack_messages: self._process_acknowledgment(ack_msg)
RECURSIVE ReplayPending(_, _)
ReplayPending(st, list) ==
    IF list = <<>> THEN st
    ELSE ReplayPending(ProcessAcknowledgment(st, Head(list)), Tail(list))

\* a receipt that keeps the acknowledgment set the table already has
ProcessMulticastKeep(st, m) ==
    LET c == Tick(Observe(st.clock, m.timestamp))
        a == IF m.msg_id \in DOMAIN st.acks THEN st.acks
             ELSE DictSet(st.acks, m.msg_id, {})
        has == m.msg_id \in DOMAIN st.pend
        list == IF has THEN st.pend[m.msg_id] ELSE <<>>
        pd == IF has THEN DictDel(st.pend, m.msg_id) ELSE st.pend
    IN ReplayPending([clock |-> c, acks |-> a, pend |-> pd], list)

\* the multicast branch of _process_received_message run to its end, but for
\* the queue and the timer: observe, tick, reset the acknowledgment set,
\* take the pending acks out of the buffer and replay them
ProcessMulticast(st, m) ==
    LET c == Tick(Observe(st.clock, m.timestamp))
        a == DictSet(st.acks, m.msg_id, {})
        has == m.msg_id \in DOMAIN st.pend
        list == IF has THEN st.pend[m.msg_id] ELSE <<>>
        pd == IF has THEN DictDel(st.pend, m.msg_id) ELSE st.pend
    IN ReplayPending([clock |-> c, acks |-> a, pend |-> pd], list)

\* ---------------------------------------------------------------- delivery
\* a quorum that misses one member
HasAllButOne(acked_by) == Cardinality(acked_by) >= required_acks - 1

\* acks_received >= self.required_acks, for a head that has an entry
HasQuorum(acked_by) == Cardinality(acked_by) >= required_acks

\* the decision of try_deliver_message on a queue and an acknowledgment table
CanDeliver(q, acks) ==
    /\ q # <<>>
    /\ q[1].msg_id \in DOMAIN acks
    /\ HasQuorum(acks[q[1].msg_id])

\* a delivery that takes the first fully acknowledged message, wherever it is
DeliverAnyAcked(q, acks) ==
    LET ready == {i \in 1..Len(q) :
                    q[i].msg_id \in DOMAIN acks /\ HasQuorum(acks[q[i].msg_id])}
    IN IF ready = {}
       THEN [ret |-> FALSE, queue |-> q, acks |-> acks, out |-> <<>>]
       ELSE LET i == CHOOSE k \in ready : \A j \in ready : k <= j IN
            [ret |-> TRUE,
             queue |-> SubSeq(q, 1, i - 1) \o SubSeq(q, i + 1, Len(q)),
             acks |-> DictDel(acks, q[i].msg_id), out |-> <<q[i]>>]

\* a delivery that pops the head before it counts the acks
DeliverPopFirst(q, acks) ==
    IF CanDeliver(q, acks)
    THEN [ret |-> TRUE, queue |-> Tail(q), acks |-> DictDel(acks, q[1].msg_id),
          out |-> <<q[1]>>]
    ELSE [ret |-> FALSE, queue |-> IF q = <<>> THEN q ELSE Tail(q),
          acks |-> acks, out |-> <<>>]

\* a delivery that hands the head over and leaves it queued
DeliverKeepHead(q, acks) ==
    IF CanDeliver(q, acks)
    THEN [ret |-> TRUE, queue |-> q, acks |-> acks, out |-> <<q[1]>>]
    ELSE [ret |-> FALSE, queue |-> q, acks |-> acks, out |-> <<>>]

\* try_deliver_message: its return value and the queue and table it leaves
DeliverOutcome(q, acks) ==
    IF CanDeliver(q, acks)
    THEN [ret |-> TRUE, queue |-> Tail(q), acks |-> DictDel(acks, q[1].msg_id),
          out |-> <<q[1]>>]
    ELSE [ret |-> FALSE, queue |-> q, acks |-> acks, out |-> <<>>]

\* --------------------------------------------------------------- transport
\* _broadcast_message: one unicast per member of the group, the sender included
Broadcast(msg) == {[dst |-> q, msg |-> msg] : q \in Procs}

St(p) == [clock |-> logical_clock[p], acks |-> acknowledgments[p],
          pend |-> pending_acks[p]]


\* their ids, for a sequence of messages
RECURSIVE IdsOf(_)
IdsOf(q) == IF q = <<>> THEN {} ELSE {Head(q).msg_id} \cup IdsOf(Tail(q))

\* ------------------------------------------------------------ threads, locks
Locks == {"clock_lock", "queue_lock", "ack_lock", "pending_lock"}

Nobody == <<"nobody", 0>>

CmdThread == <<"cmd", 0>>

Handler(h) == <<"handler", h>>

NoMsg == [msg_type |-> "none"]

IdleThread == [pc |-> "idle", msg |-> NoMsg, replay |-> <<>>]

IdleCmd == [pc |-> "idle", i |-> 0, ts |-> 0]

\* the callers of _broadcast_message: send_message and _send_acknowledgment
Callers == {"send", "ack"}

\* no call: no message, no port reached yet, no port failed
IdleBcast == [msg |-> NoMsg, next |-> 0, failed |-> {}]

\* ------------------------------------------------------------------- Init
\* Process.__init__ at every member, nothing sent yet, no thread running
Init ==
    /\ logical_clock = [p \in Procs |-> 0]
    /\ message_queue = [p \in Procs |-> <<>>]
    /\ acknowledgments = [p \in Procs |-> EmptyDict]
    /\ pending_acks = [p \in Procs |-> EmptyDict]
    /\ network = {}
    /\ timers = {}
    /\ delivered = [p \in Procs |-> <<>>]
    /\ returned = NoReturn
    /\ sent = {}
    /\ enqueued = [p \in Procs |-> {}]
    /\ acks_emitted = [p \in Procs |-> {}]
    /\ threads = [h \in 1..MaxHandlers |-> IdleThread]
    /\ cmd = IdleCmd
    /\ lock_owner = [l \in Locks |-> Nobody]
    /\ passes = 0
    /\ used_stamps = [p \in Procs |-> {}]
    /\ bcast = [w \in Callers |-> IdleBcast]

\* ------------------------------------------------- actions of the group
AckBacklog == Cardinality({u \in network : u.msg.msg_type = "ack"})

TimerBacklog == Cardinality(timers)

\* the schedule bound of Spec
AcksSettled == AckBacklog <= MaxAckBacklog

Settled == AcksSettled /\ TimerBacklog <= MaxTimerBacklog

\* a send_message that also puts the message into the sender's own queue
SendMessageShortcut(p) ==
    /\ Settled
    /\ Cardinality(sent) < MaxSends
    /\ LET ts == Tick(logical_clock[p])
           m == Multicast(p, ts)
       IN /\ logical_clock' = [logical_clock EXCEPT ![p] = ts]
          /\ acknowledgments' = [acknowledgments EXCEPT
                                   ![p] = DictSet(@, m.msg_id, {})]
          /\ message_queue' = [message_queue EXCEPT ![p] = Enqueue(@, m)]
          /\ network' = network \cup Broadcast(m)
          /\ sent' = sent \cup {m}
    /\ returned' = NoReturn
    /\ UNCHANGED <<pending_acks, timers, delivered, enqueued,
                   acks_emitted, threadVars, bcast>>

\* send_message(content)
SendMessage(p) ==
    /\ Settled
    /\ Cardinality(sent) < MaxSends
    /\ LET ts == Tick(logical_clock[p])
           m == Multicast(p, ts)
       IN /\ logical_clock' = [logical_clock EXCEPT ![p] = ts]
          /\ acknowledgments' = [acknowledgments EXCEPT
                                   ![p] = DictSet(@, m.msg_id, {})]
          /\ network' = network \cup Broadcast(m)
          /\ sent' = sent \cup {m}
    /\ returned' = NoReturn
    /\ UNCHANGED <<message_queue, pending_acks, timers, delivered, enqueued,
                   acks_emitted, threadVars>>
    /\ UNCHANGED bcast

\* _handle_connection -> _process_received_message, MULTICAST branch
ReceiveMulticast(p) ==
    /\ Settled
    /\ \E u \in network :
        /\ u.dst = p
        /\ u.msg.msg_type = "multicast"
        /\ LET st == ProcessMulticast(St(p), u.msg) IN
            /\ logical_clock' = [logical_clock EXCEPT ![p] = st.clock]
            /\ acknowledgments' = [acknowledgments EXCEPT ![p] = st.acks]
            /\ pending_acks' = [pending_acks EXCEPT ![p] = st.pend]
        /\ message_queue' = [message_queue EXCEPT ![p] = Enqueue(@, u.msg)]
        /\ enqueued' = [enqueued EXCEPT ![p] = @ \cup {u.msg.msg_id}]
        /\ timers' = timers \cup {[proc |-> p, msg |-> u.msg]}
        /\ network' = network \ {u}
    /\ returned' = NoReturn
    /\ UNCHANGED <<delivered, sent, acks_emitted, threadVars>>
    /\ UNCHANGED bcast

\* _handle_connection -> _process_received_message, ACK branch
ReceiveAck(p) ==
    /\ \E u \in network :
        /\ u.dst = p
        /\ u.msg.msg_type = "ack"
        /\ LET st == ProcessAcknowledgment(St(p), u.msg) IN
            /\ logical_clock' = [logical_clock EXCEPT ![p] = st.clock]
            /\ acknowledgments' = [acknowledgments EXCEPT ![p] = st.acks]
            /\ pending_acks' = [pending_acks EXCEPT ![p] = st.pend]
        /\ network' = network \ {u}
    /\ returned' = NoReturn
    /\ UNCHANGED <<message_queue, timers, delivered, sent, enqueued,
                   acks_emitted, threadVars>>
    /\ UNCHANGED bcast

\* the Timer of _process_received_message fires: _send_acknowledgment
SendAcknowledgment(p) ==
    /\ AcksSettled
    /\ \E t \in timers :
        /\ t.proc = p
        /\ LET ts == Tick(logical_clock[p])
               a == Ack(p, ts, t.msg.msg_id)
           IN /\ logical_clock' = [logical_clock EXCEPT ![p] = ts]
              /\ network' = network \cup Broadcast(a)
        /\ acks_emitted' = [acks_emitted EXCEPT ![p] = @ \cup {t.msg.msg_id}]
        /\ timers' = timers \ {t}
    /\ returned' = NoReturn
    /\ UNCHANGED <<message_queue, acknowledgments, pending_acks, delivered,
                   sent, enqueued, threadVars>>
    /\ UNCHANGED bcast

\* a delivery that runs increment_for_delivery when it succeeds
TryDeliverMessageTick(p) ==
    /\ Settled
    /\ LET o == DeliverOutcome(message_queue[p], acknowledgments[p]) IN
        /\ message_queue' = [message_queue EXCEPT ![p] = o.queue]
        /\ acknowledgments' = [acknowledgments EXCEPT ![p] = o.acks]
        /\ delivered' = [delivered EXCEPT ![p] = @ \o o.out]
        /\ returned' = [proc |-> p, value |-> o.ret]
        /\ logical_clock' = [logical_clock EXCEPT
                               ![p] = IF o.ret THEN Tick(@) ELSE @]
    /\ UNCHANGED <<pending_acks, network, timers, sent, enqueued,
                   acks_emitted, threadVars, bcast>>

\* the "deliver" command: try_deliver_message
TryDeliverMessage(p) ==
    /\ Settled
    /\ LET o == DeliverOutcome(message_queue[p], acknowledgments[p]) IN
        /\ message_queue' = [message_queue EXCEPT ![p] = o.queue]
        /\ acknowledgments' = [acknowledgments EXCEPT ![p] = o.acks]
        /\ delivered' = [delivered EXCEPT ![p] = @ \o o.out]
        /\ returned' = [proc |-> p, value |-> o.ret]
    /\ UNCHANGED <<logical_clock, pending_acks, network, timers, sent, enqueued,
                   acks_emitted, threadVars>>
    /\ UNCHANGED bcast

Next ==
    \E p \in Procs :
        \/ SendMessage(p)
        \/ ReceiveMulticast(p)
        \/ ReceiveAck(p)
        \/ SendAcknowledgment(p)
        \/ TryDeliverMessage(p)

Spec == Init /\ [][Next]_vars

\* ============================================== one process, thread by thread
\* A thread's step is one critical section (with lock: ...), or the
\* acquisition of a lock it then holds across steps.  clock_lock, and
\* queue_lock and ack_lock where nothing is acquired inside them, are taken
\* and released within one step.
Free(l) == lock_owner[l] = Nobody

Idle(h) == threads[h].pc = "idle"

\* the handler thread that _serve starts for the next connection
FreeSlot(h) == Idle(h) /\ \A k \in 1..(h - 1) : ~Idle(k)

ToSelf(msg) == {u \in Broadcast(msg) : u.dst = Self}

\* multicasts originated so far, with the one send_message is about to broadcast
Originated == Cardinality(sent) + (IF cmd.pc = "s_acks" THEN 1 ELSE 0)

\* another member's send_message: its unicast to Self
EnvMulticast ==
    /\ Originated < MaxSends
    /\ \E s \in Procs \ {Self} : \E t \in 1..MaxTs :
        /\ t \notin used_stamps[s]
        /\ sent' = sent \cup {Multicast(s, t)}
        /\ network' = network \cup ToSelf(Multicast(s, t))
        /\ used_stamps' = [used_stamps EXCEPT ![s] = @ \cup {t}]
    /\ returned' = NoReturn
    /\ UNCHANGED <<procVars, timers, delivered, enqueued, acks_emitted,
                   threads, cmd, lock_owner, passes>>
    /\ UNCHANGED bcast

RECURSIVE SumOver(_, _)
SumOver(S, f) ==
    IF S = {} THEN 0
    ELSE LET x == CHOOSE y \in S : TRUE IN
         Cardinality(f[x]) + SumOver(S \ {x}, f)

\* Acks of the other members so far
EnvAcks == SumOver(Procs \ {Self}, acks_emitted)

\* connections accepted so far: every multicast and every Ack put one unicast
\* to Self on the network, and those no longer there were accepted
Accepted == Cardinality(sent) + SumOver(Procs, acks_emitted)
              - Cardinality(network)

\* another member's _send_acknowledgment for a multicast that was sent: its
\* unicast to Self.  The member observed the multicast and ticked, then
\* ticked again for the Ack: the stamp is at least the multicast's plus 2.
EnvAck ==
    /\ EnvAcks < MaxEnvAcks
    /\ \E s \in Procs \ {Self} : \E m \in sent : \E d \in 0..MaxAckLag :
        LET t == m.timestamp + 2 + d IN
        /\ m.msg_id \notin acks_emitted[s]
        /\ t \notin used_stamps[s]
        /\ network' = network \cup ToSelf(Ack(s, t, m.msg_id))
        /\ acks_emitted' = [acks_emitted EXCEPT ![s] = @ \cup {m.msg_id}]
        /\ used_stamps' = [used_stamps EXCEPT ![s] = @ \cup {t}]
    /\ returned' = NoReturn
    /\ UNCHANGED <<procVars, timers, delivered, sent, enqueued,
                   threads, cmd, lock_owner, passes>>
    /\ UNCHANGED bcast

\* _serve accepts a connection; the handler thread reads the message and
\* runs update_clock_on_receive (lines 128 and 164)
Accept(h) ==
    /\ FreeSlot(h)
    /\ Accepted < MaxAccepts
    /\ \E u \in network :
        /\ u.dst = Self
        /\ threads' = [threads EXCEPT ![h] =
                         [pc |-> "tick", msg |-> u.msg, replay |-> <<>>]]
        /\ logical_clock' = [logical_clock EXCEPT
                               ![Self] = Observe(@, u.msg.timestamp)]
        /\ network' = network \ {u}
    /\ returned' = NoReturn
    /\ UNCHANGED <<message_queue, acknowledgments, pending_acks, timers,
                   delivered, sent, enqueued, acks_emitted, cmd, lock_owner,
                   passes, used_stamps>>
    /\ UNCHANGED bcast

\* increment_for_delivery (lines 131 and 167)
HandlerTick(h) ==
    /\ threads[h].pc = "tick"
    /\ logical_clock' = [logical_clock EXCEPT ![Self] = Tick(@)]
    /\ threads' = [threads EXCEPT ![h].pc =
                     IF threads[h].msg.msg_type = "multicast"
                     THEN "queue" ELSE "ack"]
    /\ returned' = NoReturn
    /\ UNCHANGED <<message_queue, acknowledgments, pending_acks, network,
                   timers, delivered, sent, enqueued, acks_emitted, cmd,
                   lock_owner, passes, used_stamps>>
    /\ UNCHANGED bcast

\* with self.queue_lock: append, sort (lines 134-137)
McQueue(h) ==
    /\ threads[h].pc = "queue"
    /\ Free("queue_lock")
    /\ message_queue' = [message_queue EXCEPT
                           ![Self] = Enqueue(@, threads[h].msg)]
    /\ enqueued' = [enqueued EXCEPT ![Self] = @ \cup {threads[h].msg.msg_id}]
    /\ threads' = [threads EXCEPT ![h].pc = "acks"]
    /\ returned' = NoReturn
    /\ UNCHANGED <<logical_clock, acknowledgments, pending_acks, network,
                   timers, delivered, sent, acks_emitted, cmd, lock_owner,
                   passes, used_stamps>>
    /\ UNCHANGED bcast

\* with self.ack_lock: self.acknowledgments[message.msg_id] = set()
McInitAcks(h) ==
    /\ threads[h].pc = "acks"
    /\ Free("ack_lock")
    /\ acknowledgments' = [acknowledgments EXCEPT
                             ![Self] = DictSet(@, threads[h].msg.msg_id, {})]
    /\ threads' = [threads EXCEPT ![h].pc = "pending"]
    /\ returned' = NoReturn
    /\ UNCHANGED <<logical_clock, message_queue, pending_acks, network,
                   timers, delivered, sent, enqueued, acks_emitted, cmd,
                   lock_owner, passes, used_stamps>>
    /\ UNCHANGED bcast

\* with self.pending_lock: (lines 146-149); with nothing pending the lock is
\* released and the Timer started (line 156), else the thread keeps the lock
\* and replays
McPending(h) ==
    /\ threads[h].pc = "pending"
    /\ Free("pending_lock")
    /\ LET id == threads[h].msg.msg_id IN
       IF id \in DOMAIN pending_acks[Self]
       THEN /\ pending_acks' = [pending_acks EXCEPT ![Self] = DictDel(@, id)]
            /\ threads' = [threads EXCEPT
                             ![h].pc = "r_observe",
                             ![h].replay = pending_acks[Self][id]]
            /\ lock_owner' = [lock_owner EXCEPT !["pending_lock"] = Handler(h)]
            /\ UNCHANGED timers
       ELSE /\ timers' = timers \cup {[proc |-> Self, msg |-> threads[h].msg]}
            /\ threads' = [threads EXCEPT ![h] = IdleThread]
            /\ UNCHANGED <<pending_acks, lock_owner>>
    /\ returned' = NoReturn
    /\ UNCHANGED <<logical_clock, message_queue, acknowledgments, network,
                   delivered, sent, enqueued, acks_emitted, cmd, passes,
                   used_stamps>>
    /\ UNCHANGED bcast

\* the replayed _process_acknowledgment: update_clock_on_receive (line 164),
\* with pending_lock held
ReplayObserve(h) ==
    /\ threads[h].pc = "r_observe"
    /\ logical_clock' = [logical_clock EXCEPT
                           ![Self] = Observe(@, Head(threads[h].replay).timestamp)]
    /\ threads' = [threads EXCEPT ![h].pc = "r_tick"]
    /\ returned' = NoReturn
    /\ UNCHANGED <<message_queue, acknowledgments, pending_acks, network,
                   timers, delivered, sent, enqueued, acks_emitted, cmd,
                   lock_owner, passes, used_stamps>>
    /\ UNCHANGED bcast

\* the replayed _process_acknowledgment: increment_for_delivery (line 167)
ReplayTick(h) ==
    /\ threads[h].pc = "r_tick"
    /\ logical_clock' = [logical_clock EXCEPT ![Self] = Tick(@)]
    /\ threads' = [threads EXCEPT ![h].pc = "r_ack"]
    /\ returned' = NoReturn
    /\ UNCHANGED <<message_queue, acknowledgments, pending_acks, network,
                   timers, delivered, sent, enqueued, acks_emitted, cmd,
                   lock_owner, passes, used_stamps>>
    /\ UNCHANGED bcast

\* the replayed _process_acknowledgment: with self.ack_lock (lines 170-181).
\* With the entry there the ack is recorded; after the last one pending_lock
\* is released and the Timer started.  With the entry gone the thread keeps
\* ack_lock and asks for pending_lock, which it holds itself.
ReplayAck(h) ==
    /\ threads[h].pc = "r_ack"
    /\ Free("ack_lock")
    /\ LET a == Head(threads[h].replay)
           rest == Tail(threads[h].replay)
       IN
       IF a.original_msg_id \in DOMAIN acknowledgments[Self]
       THEN /\ acknowledgments' = [acknowledgments EXCEPT
                                     ![Self] = RecordAck(@, a)]
            /\ IF rest = <<>>
               THEN /\ threads' = [threads EXCEPT ![h] = IdleThread]
                    /\ lock_owner' = [lock_owner EXCEPT
                                        !["pending_lock"] = Nobody]
                    /\ timers' = timers \cup
                                   {[proc |-> Self, msg |-> threads[h].msg]}
               ELSE /\ threads' = [threads EXCEPT ![h].pc = "r_observe",
                                                  ![h].replay = rest]
                    /\ UNCHANGED <<lock_owner, timers>>
       ELSE /\ threads' = [threads EXCEPT ![h].pc = "r_pending"]
            /\ lock_owner' = [lock_owner EXCEPT !["ack_lock"] = Handler(h)]
            /\ UNCHANGED <<acknowledgments, timers>>
    /\ returned' = NoReturn
    /\ UNCHANGED <<logical_clock, message_queue, pending_acks, network,
                   delivered, sent, enqueued, acks_emitted, cmd, passes,
                   used_stamps>>
    /\ UNCHANGED bcast

\* an Ack handler that leaves ack_lock before it goes on to pending_lock
AckCheckRelease(h) ==
    /\ threads[h].pc = "ack"
    /\ Free("ack_lock")
    /\ IF threads[h].msg.original_msg_id \in DOMAIN acknowledgments[Self]
       THEN /\ acknowledgments' = [acknowledgments EXCEPT
                                     ![Self] = RecordAck(@, threads[h].msg)]
            /\ threads' = [threads EXCEPT ![h] = IdleThread]
       ELSE /\ threads' = [threads EXCEPT ![h].pc = "a_pending"]
            /\ UNCHANGED acknowledgments
    /\ returned' = NoReturn
    /\ UNCHANGED <<logical_clock, message_queue, pending_acks, network,
                   timers, delivered, sent, enqueued, acks_emitted, cmd,
                   passes, used_stamps, lock_owner, bcast>>

\* _process_acknowledgment of a received Ack: with self.ack_lock
\* (lines 170-176); without an entry the thread keeps ack_lock and goes on
\* to pending_lock
AckCheck(h) ==
    /\ threads[h].pc = "ack"
    /\ Free("ack_lock")
    /\ IF threads[h].msg.original_msg_id \in DOMAIN acknowledgments[Self]
       THEN /\ acknowledgments' = [acknowledgments EXCEPT
                                     ![Self] = RecordAck(@, threads[h].msg)]
            /\ threads' = [threads EXCEPT ![h] = IdleThread]
            /\ UNCHANGED lock_owner
       ELSE /\ threads' = [threads EXCEPT ![h].pc = "a_pending"]
            /\ lock_owner' = [lock_owner EXCEPT !["ack_lock"] = Handler(h)]
            /\ UNCHANGED acknowledgments
    /\ returned' = NoReturn
    /\ UNCHANGED <<logical_clock, message_queue, pending_acks, network,
                   timers, delivered, sent, enqueued, acks_emitted, cmd,
                   passes, used_stamps>>
    /\ UNCHANGED bcast

\* with self.pending_lock, inside ack_lock: buffer the ack (lines 177-181)
AckBuffer(h) ==
    /\ threads[h].pc = "a_pending"
    /\ Free("pending_lock")
    /\ pending_acks' = [pending_acks EXCEPT
                          ![Self] = BufferAck(@, threads[h].msg)]
    /\ lock_owner' = [lock_owner EXCEPT !["ack_lock"] = Nobody]
    /\ threads' = [threads EXCEPT ![h] = IdleThread]
    /\ returned' = NoReturn
    /\ UNCHANGED <<logical_clock, message_queue, acknowledgments, network,
                   timers, delivered, sent, enqueued, acks_emitted, cmd,
                   passes, used_stamps>>
    /\ UNCHANGED bcast

\* the Timer thread: _send_acknowledgment; the unicast to Self is kept
TimerFire ==
    /\ \E t \in timers :
        /\ t.proc = Self
        /\ LET ts == Tick(logical_clock[Self]) IN
            /\ logical_clock' = [logical_clock EXCEPT ![Self] = ts]
            /\ network' = network \cup ToSelf(Ack(Self, ts, t.msg.msg_id))
        /\ acks_emitted' = [acks_emitted EXCEPT ![Self] = @ \cup {t.msg.msg_id}]
        /\ used_stamps' = [used_stamps EXCEPT
                             ![Self] = @ \cup {Tick(logical_clock[Self])}]
        /\ timers' = timers \ {t}
    /\ returned' = NoReturn
    /\ UNCHANGED <<message_queue, acknowledgments, pending_acks, delivered,
                   sent, enqueued, threads, cmd, lock_owner, passes>>
    /\ UNCHANGED bcast


\* ---------------------------------------------- the command thread (main.py)
\* "deliver": try_deliver_message takes queue_lock; an empty queue returns
\* False at once (lines 207-210), else the thread keeps the lock
CmdDeliverStart ==
    /\ cmd.pc = "idle"
    /\ Free("queue_lock")
    /\ IF message_queue[Self] = <<>>
       THEN /\ returned' = [proc |-> Self,
                            value |-> DeliverOutcome(message_queue[Self],
                                                     acknowledgments[Self]).ret]
            /\ UNCHANGED <<cmd, lock_owner>>
       ELSE /\ cmd' = [cmd EXCEPT !.pc = "d_ack"]
            /\ lock_owner' = [lock_owner EXCEPT !["queue_lock"] = CmdThread]
            /\ returned' = NoReturn
    /\ UNCHANGED <<procVars, network, timers, delivered, sent, enqueued,
                   acks_emitted, threads, passes, used_stamps>>
    /\ UNCHANGED bcast

\* try_deliver_message, with self.ack_lock inside queue_lock (lines 216-236)
CmdDeliverCheck ==
    /\ cmd.pc = "d_ack"
    /\ Free("ack_lock")
    /\ LET o == DeliverOutcome(message_queue[Self], acknowledgments[Self]) IN
        /\ message_queue' = [message_queue EXCEPT ![Self] = o.queue]
        /\ acknowledgments' = [acknowledgments EXCEPT ![Self] = o.acks]
        /\ delivered' = [delivered EXCEPT ![Self] = @ \o o.out]
        /\ returned' = [proc |-> Self, value |-> o.ret]
    /\ cmd' = IdleCmd
    /\ lock_owner' = [lock_owner EXCEPT !["queue_lock"] = Nobody]
    /\ UNCHANGED <<logical_clock, pending_acks, network, timers, sent,
                   enqueued, acks_emitted, threads, passes, used_stamps>>
    /\ UNCHANGED bcast

\* "send": send_message runs increment_clock (line 246)
CmdSendTick ==
    /\ cmd.pc = "idle"
    /\ Originated < MaxSends
    /\ Tick(logical_clock[Self]) <= MaxTs
    /\ logical_clock' = [logical_clock EXCEPT ![Self] = Tick(@)]
    /\ cmd' = [cmd EXCEPT !.pc = "s_acks", !.ts = Tick(logical_clock[Self])]
    /\ used_stamps' = [used_stamps EXCEPT
                         ![Self] = @ \cup {Tick(logical_clock[Self])}]
    /\ returned' = NoReturn
    /\ UNCHANGED <<message_queue, acknowledgments, pending_acks, network,
                   timers, delivered, sent, enqueued, acks_emitted, threads,
                   lock_owner, passes>>
    /\ UNCHANGED bcast

\* send_message: with self.ack_lock the empty set (lines 259-260), then the
\* broadcast, of which the unicast to Self is kept
CmdSendBroadcast ==
    /\ cmd.pc = "s_acks"
    /\ Free("ack_lock")
    /\ LET m == Multicast(Self, cmd.ts) IN
        /\ acknowledgments' = [acknowledgments EXCEPT
                                 ![Self] = DictSet(@, m.msg_id, {})]
        /\ network' = network \cup ToSelf(m)
        /\ sent' = sent \cup {m}
    /\ cmd' = IdleCmd
    /\ returned' = NoReturn
    /\ UNCHANGED <<logical_clock, message_queue, pending_acks, timers,
                   delivered, enqueued, acks_emitted, threads, lock_owner,
                   passes, used_stamps>>
    /\ UNCHANGED bcast

\* "pass": increment_clock
CmdPass ==
    /\ cmd.pc = "idle"
    /\ passes < MaxPass
    /\ logical_clock' = [logical_clock EXCEPT ![Self] = Tick(@)]
    /\ passes' = passes + 1
    /\ returned' = NoReturn
    /\ UNCHANGED <<message_queue, acknowledgments, pending_acks, network,
                   timers, delivered, sent, enqueued, acks_emitted, threads,
                   cmd, lock_owner, used_stamps>>
    /\ UNCHANGED bcast

\* "queue": show_queue takes queue_lock and keeps it unless the queue is
\* empty (lines 282-286)
CmdShowStart ==
    /\ cmd.pc = "idle"
    /\ Free("queue_lock")
    /\ message_queue[Self] # <<>>
    /\ cmd' = [cmd EXCEPT !.pc = "q_item", !.i = 1]
    /\ lock_owner' = [lock_owner EXCEPT !["queue_lock"] = CmdThread]
    /\ returned' = NoReturn
    /\ UNCHANGED <<procVars, network, timers, delivered, sent, enqueued,
                   acks_emitted, threads, passes, used_stamps>>
    /\ UNCHANGED bcast

\* show_queue: with self.ack_lock for the message at index i (lines 287-291)
CmdShowItem ==
    /\ cmd.pc = "q_item"
    /\ Free("ack_lock")
    /\ cmd' = IF cmd.i = Len(message_queue[Self])
              THEN [cmd EXCEPT !.pc = "q_pending", !.i = 0]
              ELSE [cmd EXCEPT !.i = cmd.i + 1]
    /\ returned' = NoReturn
    /\ UNCHANGED <<procVars, network, timers, delivered, sent, enqueued,
                   acks_emitted, threads, lock_owner, passes, used_stamps>>
    /\ UNCHANGED bcast

\* show_queue: with self.pending_lock (lines 310-315)
CmdShowPending ==
    /\ cmd.pc = "q_pending"
    /\ Free("pending_lock")
    /\ cmd' = [cmd EXCEPT !.pc = "q_head"]
    /\ returned' = NoReturn
    /\ UNCHANGED <<procVars, network, timers, delivered, sent, enqueued,
                   acks_emitted, threads, lock_owner, passes, used_stamps>>
    /\ UNCHANGED bcast

\* show_queue: with self.ack_lock for the head (lines 318-321), then
\* queue_lock is released
CmdShowHead ==
    /\ cmd.pc = "q_head"
    /\ Free("ack_lock")
    /\ cmd' = IdleCmd
    /\ lock_owner' = [lock_owner EXCEPT !["queue_lock"] = Nobody]
    /\ returned' = NoReturn
    /\ UNCHANGED <<procVars, network, timers, delivered, sent, enqueued,
                   acks_emitted, threads, passes, used_stamps>>
    /\ UNCHANGED bcast

ThreadNext ==
    \/ EnvMulticast
    \/ EnvAck
    \/ \E h \in 1..MaxHandlers :
        \/ Accept(h)
        \/ HandlerTick(h)
        \/ McQueue(h)
        \/ McInitAcks(h)
        \/ McPending(h)
        \/ ReplayObserve(h)
        \/ ReplayTick(h)
        \/ ReplayAck(h)
        \/ AckCheck(h)
        \/ AckBuffer(h)
    \/ TimerFire
    \/ CmdDeliverStart
    \/ CmdDeliverCheck
    \/ CmdSendTick
    \/ CmdSendBroadcast
    \/ CmdPass
    \/ CmdShowStart
    \/ CmdShowItem
    \/ CmdShowPending
    \/ CmdShowHead

ThreadSpec == Init /\ [][ThreadNext]_vars

\* ------------------------------------------------------------ waiting threads
Threads == {Handler(h) : h \in 1..MaxHandlers} \cup {CmdThread}

PcOf(t) == IF t = CmdThread THEN cmd.pc ELSE threads[t[2]].pc

\* the lock the thread's next step acquires
WaitsFor(t) ==
    LET pc == PcOf(t) IN
    IF pc \in {"tick", "r_observe", "r_tick"} THEN "clock_lock"
    ELSE IF pc = "queue" THEN "queue_lock"
    ELSE IF pc \in {"acks", "ack", "r_ack", "d_ack", "s_acks", "q_item", "q_head"}
         THEN "ack_lock"
    ELSE IF pc \in {"pending", "a_pending", "r_pending", "q_pending"}
         THEN "pending_lock"
    ELSE "none"

Blocked(t) == WaitsFor(t) # "none" /\ lock_owner[WaitsFor(t)] # Nobody

\* ================================= one process, _broadcast_message port by port
\* The process is Self; its own threads are as in Spec (a handler runs to its
\* end in one step), but _broadcast_message is one step per port of
\* all_ports, and a connection may fail (lines 270-278).  The port of index d
\* is the port of member d.

\* a port failed inside the loop, and the exception is taken there
AbortOnFailure(port) == NumProcs + 1

\* except Exception: print(...), then the next port of the loop
AfterFailure(port) == port + 1

\* send_message up to its call of _broadcast_message (lines 246-264)
FanSendMessage ==
    /\ bcast["send"] = IdleBcast
    /\ Cardinality(sent) < MaxSends
    /\ LET ts == Tick(logical_clock[Self])
           m == Multicast(Self, ts)
       IN /\ logical_clock' = [logical_clock EXCEPT ![Self] = ts]
          /\ acknowledgments' = [acknowledgments EXCEPT
                                   ![Self] = DictSet(@, m.msg_id, {})]
          /\ sent' = sent \cup {m}
          /\ bcast' = [bcast EXCEPT
                         !["send"] = [msg |-> m, next |-> 1, failed |-> {}]]
    /\ returned' = NoReturn
    /\ UNCHANGED <<message_queue, pending_acks, network, timers, delivered,
                   enqueued, acks_emitted, threadVars>>

\* _send_acknowledgment up to its call of _broadcast_message (lines 186-199)
FanSendAcknowledgment ==
    /\ bcast["ack"] = IdleBcast
    /\ \E t \in timers :
        /\ t.proc = Self
        /\ LET ts == Tick(logical_clock[Self]) IN
            /\ logical_clock' = [logical_clock EXCEPT ![Self] = ts]
            /\ bcast' = [bcast EXCEPT
                           !["ack"] = [msg |-> Ack(Self, ts, t.msg.msg_id),
                                       next |-> 1, failed |-> {}]]
        /\ acks_emitted' = [acks_emitted EXCEPT ![Self] = @ \cup {t.msg.msg_id}]
        /\ timers' = timers \ {t}
    /\ returned' = NoReturn
    /\ UNCHANGED <<message_queue, acknowledgments, pending_acks, network,
                   delivered, sent, enqueued, threadVars>>

\* one round of the loop of _broadcast_message: connect, send and close, or
\* an exception that is printed (lines 270-278)
FanConnect(w) ==
    /\ bcast[w].msg # NoMsg
    /\ bcast[w].next \in 1..NumProcs
    /\ \E ok \in BOOLEAN :
        IF ok
        THEN /\ network' = network \cup
                             {[dst |-> bcast[w].next, msg |-> bcast[w].msg]}
             /\ bcast' = [bcast EXCEPT ![w].next = @ + 1]
        ELSE /\ bcast' = [bcast EXCEPT ![w].next = AfterFailure(@),
                                       ![w].failed = @ \cup {bcast[w].next}]
             /\ UNCHANGED network
    /\ returned' = NoReturn
    /\ UNCHANGED <<procVars, timers, delivered, sent, enqueued, acks_emitted,
                   threadVars>>

\* the loop is over: _broadcast_message returns
FanReturn(w) ==
    /\ bcast[w].msg # NoMsg
    /\ bcast[w].next > NumProcs
    /\ bcast' = [bcast EXCEPT ![w] = IdleBcast]
    /\ returned' = NoReturn
    /\ UNCHANGED <<procVars, network, timers, delivered, sent, enqueued,
                   acks_emitted, threadVars>>

\* _handle_connection -> _process_received_message for a unicast to Self
FanReceive ==
    /\ \E u \in network :
        /\ u.dst = Self
        /\ IF u.msg.msg_type = "multicast"
           THEN /\ LET st == ProcessMulticast(St(Self), u.msg) IN
                    /\ logical_clock' = [logical_clock EXCEPT ![Self] = st.clock]
                    /\ acknowledgments' = [acknowledgments EXCEPT
                                             ![Self] = st.acks]
                    /\ pending_acks' = [pending_acks EXCEPT ![Self] = st.pend]
                /\ message_queue' = [message_queue EXCEPT
                                       ![Self] = Enqueue(@, u.msg)]
                /\ enqueued' = [enqueued EXCEPT ![Self] = @ \cup {u.msg.msg_id}]
                /\ timers' = timers \cup {[proc |-> Self, msg |-> u.msg]}
           ELSE /\ LET st == ProcessAcknowledgment(St(Self), u.msg) IN
                    /\ logical_clock' = [logical_clock EXCEPT ![Self] = st.clock]
                    /\ acknowledgments' = [acknowledgments EXCEPT
                                             ![Self] = st.acks]
                    /\ pending_acks' = [pending_acks EXCEPT ![Self] = st.pend]
                /\ UNCHANGED <<message_queue, enqueued, timers>>
        /\ network' = network \ {u}
    /\ returned' = NoReturn
    /\ UNCHANGED <<delivered, sent, acks_emitted, threadVars, bcast>>

FanoutNext ==
    \/ FanSendMessage
    \/ FanSendAcknowledgment
    \/ \E w \in Callers : FanConnect(w) \/ FanReturn(w)
    \/ FanReceive

FanoutSpec == Init /\ [][FanoutNext]_vars

\* ===================================================================== claims
InSeq(s, m) == \E i \in 1..Len(s) : s[i] = m

Pos(s, m) == CHOOSE i \in 1..Len(s) : s[i] = m

\* the acknowledgment set of id at p, empty when the table has no entry
AckSetOf(p, id) ==
    IF id \in DOMAIN acknowledgments[p] THEN acknowledgments[p][id] ELSE {}

\* the Ack of s for id has been handled at p: s broadcast it and its unicast
\* to p is no longer in flight
HandledAck(p, s, id) ==
    /\ id \in acks_emitted[s]
    /\ ~ \E u \in network : /\ u.dst = p
                            /\ u.msg.msg_type = "ack"
                            /\ u.msg.sender = s
                            /\ u.msg.original_msg_id = id

\* C1: any two multicasts that two processes have both delivered were
\* delivered in the same relative order by both.
TotalOrderAgreement ==
    \A p, q \in Procs : \A i, j \in 1..Len(delivered[p]) :
        (/\ i < j
         /\ InSeq(delivered[q], delivered[p][i])
         /\ InSeq(delivered[q], delivered[p][j]))
        => Pos(delivered[q], delivered[p][i]) < Pos(delivered[q], delivered[p][j])

\* C2: a multicast that some process has delivered has been appended to the
\* queue of every member, and every member has broadcast an Ack for it.
QuorumGating ==
    \A p \in Procs : \A i \in 1..Len(delivered[p]) : \A q \in Procs :
        /\ delivered[p][i].msg_id \in enqueued[q]
        /\ delivered[p][i].msg_id \in acks_emitted[q]

QuorumGatingWitness == \E p \in Procs : delivered[p] # <<>>

\* C3: a try_deliver_message call returns True exactly when the queue is not
\* empty and the acknowledgment set of its first message holds at least as
\* many senders as the group has members; every message behind the first is
\* still queued after the call.
DeliveryRuleStep(p) ==
    returned'.proc = p =>
        /\ returned'.value =
             (/\ message_queue[p] # <<>>
              /\ Cardinality(AckSetOf(p, message_queue[p][1].msg_id)) >= NumProcs)
        /\ \A i \in 2..Len(message_queue[p]) :
             InSeq(message_queue'[p], message_queue[p][i])

DeliveryRule == [][\A p \in Procs : DeliveryRuleStep(p)]_vars

\* the blocked queue: the call failed on a head with 2 of 3 acks while the
\* second message has 3 of 3
DeliveryRuleWitness ==
    \E p \in Procs :
        /\ returned = [proc |-> p, value |-> FALSE]
        /\ Len(message_queue[p]) >= 2
        /\ Cardinality(AckSetOf(p, message_queue[p][1].msg_id)) = 2
        /\ Cardinality(AckSetOf(p, message_queue[p][2].msg_id)) = 3

\* C4: when a process appends a multicast to its queue and finishes handling
\* it, every Ack for it that the process handled before is in its
\* acknowledgment set.
EarlyAcksApplied ==
    [][\A p \in Procs : \A m \in sent :
          (m.msg_id \notin enqueued[p] /\ m.msg_id \in enqueued'[p]) =>
              \A s \in Procs :
                  HandledAck(p, s, m.msg_id) =>
                      /\ m.msg_id \in DOMAIN acknowledgments'[p]
                      /\ s \in acknowledgments'[p][m.msg_id]]_vars

\* C5: once no unicast is in flight and no ack timer is pending, every
\* multicast sent is, at every process, delivered or queued with all the
\* members in its acknowledgment set.
AtRest == network = {} /\ timers = {}

DeliverableAtRest ==
    AtRest =>
        \A m \in sent : \A p \in Procs :
            \/ InSeq(delivered[p], m)
            \/ /\ InSeq(message_queue[p], m)
               /\ AckSetOf(p, m.msg_id) = all_processes

\* C9: a successful delivery takes the head of the queue and nothing else
\* out of the queue, and the head's entry and nothing else out of the
\* acknowledgment table; no process delivers a multicast twice.
DeliveryStep(p) ==
    delivered'[p] # delivered[p] =>
        /\ message_queue[p] # <<>>
        /\ delivered'[p] = Append(delivered[p], message_queue[p][1])
        /\ message_queue'[p] = Tail(message_queue[p])
        /\ message_queue[p][1].msg_id \in DOMAIN acknowledgments[p]
        /\ acknowledgments'[p] =
             DictDel(acknowledgments[p], message_queue[p][1].msg_id)

NoDoubleDelivery ==
    \A p \in Procs : \A i, j \in 1..Len(delivered[p]) :
        delivered[p][i].msg_id = delivered[p][j].msg_id => i = j

DeliveredOnce ==
    /\ [][\A p \in Procs : DeliveryStep(p)]_vars
    /\ []NoDoubleDelivery

\* a second successful call has delivered the new head
DeliveredOnceWitness == \E p \in Procs : Len(delivered[p]) = 2

\* C10: every queue is in ascending order of (timestamp, sender).
QueueSorted ==
    \A p \in Procs : \A i, j \in 1..Len(message_queue[p]) :
        i < j =>
            \/ message_queue[p][i].timestamp < message_queue[p][j].timestamp
            \/ /\ message_queue[p][i].timestamp = message_queue[p][j].timestamp
               /\ message_queue[p][i].sender <= message_queue[p][j].sender

QueueSortedWitness ==
    \E p \in Procs :
        /\ Len(message_queue[p]) = 2
        /\ Len(delivered[p]) = 0

\* C6: no set of threads is such that each holds a lock and waits for a lock
\* held by a thread of the set.
NoLockCycle ==
    ~ \E S \in SUBSET Threads :
        /\ S # {}
        /\ \A t \in S : Blocked(t) /\ lock_owner[WaitsFor(t)] \in S

\* C7: no step lowers a logical clock.
ClockNeverDecreases ==
    [][\A p \in Procs : logical_clock'[p] >= logical_clock[p]]_vars

\* update_clock_on_receive has run on a timestamp below the clock
ClockNeverDecreasesWitness ==
    \E h \in 1..MaxHandlers :
        /\ threads[h].pc = "tick"
        /\ threads[h].msg.timestamp < logical_clock[Self]
        /\ passes > 0

\* C8: a try_deliver_message call on an empty queue, or on a head whose
\* acknowledgment set is absent or smaller than the group, returns False, and
\* its steps leave the queue, the acknowledgment table, the pending buffer
\* and the clock as they were.
NotReady(p) ==
    \/ message_queue[p] = <<>>
    \/ Cardinality(AckSetOf(p, message_queue[p][1].msg_id)) < required_acks

NegativeDeliveryStep ==
    /\ (returned'.proc = Self /\ NotReady(Self)) => returned'.value = FALSE
    /\ ( \/ returned'.proc = Self /\ returned'.value = FALSE
         \/ cmd.pc = "idle" /\ cmd'.pc = "d_ack" )
       => UNCHANGED <<message_queue, acknowledgments, pending_acks,
                      logical_clock>>

NegativeDelivery == [][NegativeDeliveryStep]_vars

\* the call failed on a head that has no entry in the table yet
NegativeDeliveryWitness ==
    /\ returned = [proc |-> Self, value |-> FALSE]
    /\ message_queue[Self] # <<>>
    /\ message_queue[Self][1].msg_id \notin DOMAIN acknowledgments[Self]

\* C11: two processes whose queues hold the same multicasts hold them in the
\* same sequence, and in every queue two multicasts with equal timestamps
\* stand with the smaller sender first.
OrderDeterminism ==
    /\ \A p, q \in Procs :
          IdsOf(message_queue[p]) = IdsOf(message_queue[q])
              => message_queue[p] = message_queue[q]
    /\ \A p \in Procs : \A i, j \in 1..Len(message_queue[p]) :
          (i < j /\ message_queue[p][i].timestamp = message_queue[p][j].timestamp)
              => message_queue[p][i].sender < message_queue[p][j].sender

\* two processes hold the same two multicasts, which have equal timestamps
OrderDeterminismWitness ==
    \E p, q \in Procs :
        /\ p # q
        /\ Len(message_queue[p]) = 2
        /\ IdsOf(message_queue[p]) = IdsOf(message_queue[q])
        /\ message_queue[p][1].timestamp = message_queue[p][2].timestamp

\* C12: a step in which the process stamps a new message, the multicast of
\* send_message or the Ack of _send_acknowledgment, gives it a timestamp
\* that none of its earlier messages carries.
NewOwnStamps ==
    {u.msg.timestamp : u \in {v \in network' \ network :
                                 v.msg.sender = Self /\ v.msg.msg_type = "ack"}}
      \cup (IF cmd.pc = "idle" /\ cmd'.pc = "s_acks" THEN {cmd'.ts} ELSE {})

UniqueStamps == [][NewOwnStamps \cap used_stamps[Self] = {}]_vars

\* the process has stamped a multicast and an Ack, with a "pass" among them
UniqueStampsWitness ==
    /\ \E m \in sent : m.sender = Self
    /\ acks_emitted[Self] # {}
    /\ passes > 0

\* C13: while a _broadcast_message call runs, every member before the port
\* it has reached got the message unless its connection failed, a member
\* whose connection failed never gets it, and a failure changes neither the
\* sender's queue, acknowledgment table, pending buffer or clock nor the
\* course of the loop, which goes on with the next port.
FanoutReached ==
    \A w \in Callers :
        bcast[w].msg # NoMsg =>
            /\ bcast[w].failed \subseteq 1..(bcast[w].next - 1)
            /\ \A d \in Procs \ {Self} :
                 [dst |-> d, msg |-> bcast[w].msg] \in network
                     <=> (d < bcast[w].next /\ d \notin bcast[w].failed)
            /\ Self \in bcast[w].failed =>
                 /\ [dst |-> Self, msg |-> bcast[w].msg] \notin network
                 /\ bcast[w].msg.msg_id \notin enqueued[Self]

FanoutFailureStep(w) ==
    (/\ bcast[w].msg # NoMsg
     /\ bcast'[w].msg = bcast[w].msg
     /\ bcast'[w].failed # bcast[w].failed) =>
        /\ UNCHANGED <<procVars, network>>
        /\ bcast'[w].failed = bcast[w].failed \cup {bcast[w].next}
        /\ bcast'[w].next = bcast[w].next + 1

IndependentFanout ==
    /\ []FanoutReached
    /\ [][\A w \in Callers : FanoutFailureStep(w)]_vars

\* the multicast did not reach processo1, reached the two others, and the
\* sender has queued its own copy
IndependentFanoutWitness ==
    /\ bcast["send"].msg # NoMsg
    /\ bcast["send"].next > NumProcs
    /\ bcast["send"].failed = {1}
    /\ bcast["send"].msg.msg_id \in enqueued[Self]
    /\ [dst |-> 3, msg |-> bcast["send"].msg] \in network

\* C14: at every process the multicasts delivered so far were delivered in
\* strictly ascending order of (timestamp, sender).
DeliveryAscending ==
    \A p \in Procs : \A i, j \in 1..Len(delivered[p]) :
        i < j => KeyLess(delivered[p][i], delivered[p][j])

\* C15: when a process handles the receipt of a multicast, the
\* acknowledgment set it leaves for it holds the senders of the Acks that
\* were pending for it and nothing of what the table held for it before; at
\* the originator, a sender recorded since send_message is gone.
PendingSenders(p, id) ==
    IF id \in DOMAIN pending_acks[p]
    THEN {pending_acks[p][id][i].sender : i \in 1..Len(pending_acks[p][id])}
    ELSE {}

PastClockSteps(h) ==
    threads[h].pc \in {"queue", "acks", "pending", "ack", "a_pending"}

ReceiveRuleStep(h) ==
    /\ logical_clock'[Self] >= logical_clock[Self]
    /\ (threads[h].pc = "tick" /\ threads'[h].pc # "tick") =>
          /\ logical_clock'[Self] >= logical_clock[Self] + clock_increment
          /\ logical_clock'[Self] > threads[h].msg.timestamp
    /\ (threads[h].pc = "r_tick" /\ threads'[h].pc # "r_tick") =>
          /\ logical_clock'[Self] >= logical_clock[Self] + clock_increment
          /\ logical_clock'[Self] > Head(threads[h].replay).timestamp

OwnAcksAbove ==
    \A u \in network :
        (u.msg.msg_type = "ack" /\ u.msg.sender = Self) =>
            u.msg.timestamp > u.msg.original_msg_id[2]

ReceiveRule ==
    /\ [][\A h \in 1..MaxHandlers : ReceiveRuleStep(h)]_vars
    /\ [](\A h \in 1..MaxHandlers :
             PastClockSteps(h) => logical_clock[Self] > threads[h].msg.timestamp)
    /\ []OwnAcksAbove

\* the clock was not above the timestamp of the Ack a handler read, and is
\* one increment above it now; the process has an Ack of its own in flight
ReceiveRuleWitness ==
    /\ \E h \in 1..MaxHandlers :
          /\ threads[h].pc = "ack"
          /\ logical_clock[Self] = threads[h].msg.timestamp + clock_increment
    /\ \E u \in network : u.msg.msg_type = "ack" /\ u.msg.sender = Self

\* C17: the process emits an Ack for a multicast only once, and only when
\* the multicast has been queued, has its acknowledgment set and has no
\* pending Acks left; and for every multicast it has queued and not yet
\* acknowledged the Ack is still to come: its Timer is pending, or the
\* handler thread that will start the Timer is not stuck in a cycle of
\* threads waiting for each other's locks.
InLockCycle(t) ==
    \E S \in SUBSET Threads :
        /\ t \in S
        /\ \A x \in S : Blocked(x) /\ lock_owner[WaitsFor(x)] \in S

AckEmissionStep ==
    \A id \in acks_emitted'[Self] \ acks_emitted[Self] :
        /\ id \in enqueued[Self]
        /\ id \in DOMAIN acknowledgments[Self]
        /\ id \notin DOMAIN pending_acks[Self]
        /\ \E u \in network' \ network :
             /\ u.dst = Self
             /\ u.msg.msg_type = "ack"
             /\ u.msg.sender = Self
             /\ u.msg.original_msg_id = id

AckEmittedOnce ==
    \A u, v \in network :
        (/\ u.msg.msg_type = "ack" /\ v.msg.msg_type = "ack"
         /\ u.msg.sender = Self /\ v.msg.sender = Self
         /\ u.msg.original_msg_id = v.msg.original_msg_id) => u = v

AckStillToCome ==
    \A id \in enqueued[Self] \ acks_emitted[Self] :
        \/ \E t \in timers : t.proc = Self /\ t.msg.msg_id = id
        \/ \E h \in 1..MaxHandlers :
             /\ threads[h].msg.msg_type = "multicast"
             /\ threads[h].msg.msg_id = id
             /\ ~InLockCycle(Handler(h))

OneAckPerReceipt ==
    /\ [][AckEmissionStep]_vars
    /\ []AckEmittedOnce
    /\ []AckStillToCome

\* C18: an id that is in the acknowledgment table has an entry in the
\* pending buffer only while the handler of its multicast stands between
\* the set() and the drain; and a step that appends an Ack to the pending
\* buffer finds the Ack's target absent from the acknowledgment table.
BeforeDrain(id) ==
    \E h \in 1..MaxHandlers :
        /\ threads[h].pc = "pending"
        /\ threads[h].msg.msg_id = id

PendingDrained ==
    \A id \in DOMAIN pending_acks[Self] \cap DOMAIN acknowledgments[Self] :
        BeforeDrain(id)

PendingAppendStep ==
    \A id \in DOMAIN pending_acks'[Self] :
        (\/ id \notin DOMAIN pending_acks[Self]
         \/ Len(pending_acks'[Self][id]) > Len(pending_acks[Self][id]))
            => id \notin DOMAIN acknowledgments[Self]

PendingBuffer ==
    /\ []PendingDrained
    /\ [][PendingAppendStep]_vars

\* the handler of a multicast has ended, Acks for it are in its set, the
\* buffer has no entry for it and has one for another id
PendingBufferWitness ==
    \E t \in timers :
        /\ t.msg.sender # Self
        /\ t.msg.msg_id \notin DOMAIN pending_acks[Self]
        /\ AckSetOf(Self, t.msg.msg_id) # {}
        /\ DOMAIN pending_acks[Self] # {}

\* C19: a send_message step raises the sender's clock by one increment,
\* stamps the multicast with the new value, gives it an empty
\* acknowledgment set, puts one unicast per member on the network, the
\* sender included, and leaves every queue and the pending buffer as they
\* were; a multicast is in its sender's queue only when the unicast to the
\* sender has been handled.
SendStep ==
    \A m \in sent' \ sent :
        /\ logical_clock'[m.sender] = logical_clock[m.sender] + clock_increment
        /\ m.timestamp = logical_clock'[m.sender]
        /\ acknowledgments'[m.sender] =
             DictSet(acknowledgments[m.sender], m.msg_id, {})
        /\ network' = network \cup {[dst |-> q, msg |-> m] : q \in Procs}
        /\ UNCHANGED <<message_queue, pending_acks>>

OwnCopyHandled ==
    \A m \in sent :
        InSeq(message_queue[m.sender], m) =>
            /\ [dst |-> m.sender, msg |-> m] \notin network
            /\ m.msg_id \in enqueued[m.sender]

NoLocalShortcut ==
    /\ [][SendStep]_vars
    /\ []OwnCopyHandled

\* a sender holds one multicast of its own in its queue, and another one it
\* has sent is not there: its unicast to the sender is in flight
NoLocalShortcutWitness ==
    \E m, n \in sent :
        /\ m.sender = n.sender
        /\ InSeq(message_queue[m.sender], m)
        /\ ~InSeq(message_queue[n.sender], n)
        /\ [dst |-> n.sender, msg |-> n] \in network
        /\ AckSetOf(n.sender, n.msg_id) = {}

\* C20: a handler thread whose next step takes clock_lock holds neither
\* queue_lock nor ack_lock nor pending_lock.
ClockLockNotNested ==
    \A h \in 1..MaxHandlers :
        WaitsFor(Handler(h)) = "clock_lock" =>
            \A l \in Locks \ {"clock_lock"} : lock_owner[l] # Handler(h)

\* C21: the step that handles an Ack runs the two clock steps once on the
\* Ack's timestamp, whether the Ack is recorded or buffered; the step that
\* handles a multicast runs them on the multicast's timestamp and then once
\* more on the timestamp of every Ack buffered for it, in the order of the
\* buffer, so that a buffered Ack has added two increments in all.
PendingList(p, id) ==
    IF id \in DOMAIN pending_acks[p] THEN pending_acks[p][id] ELSE <<>>

RECURSIVE ClockAfterAcks(_, _)
ClockAfterAcks(c, list) ==
    IF list = <<>> THEN c
    ELSE ClockAfterAcks(Max(c, Head(list).timestamp) + clock_increment,
                        Tail(list))

ReceiptClockStep(p) ==
    \A u \in network \ network' :
        u.dst = p =>
            LET first == Max(logical_clock[p], u.msg.timestamp) + clock_increment
            IN IF u.msg.msg_type = "ack"
               THEN logical_clock'[p] = first
               ELSE /\ logical_clock'[p] =
                         ClockAfterAcks(first, PendingList(p, u.msg.msg_id))
                    /\ logical_clock'[p] >= logical_clock[p]
                         + (1 + Len(PendingList(p, u.msg.msg_id))) * clock_increment

BufferedAckTicksTwice == [][\A p \in Procs : ReceiptClockStep(p)]_vars

\* a multicast has just been handled, its Timer is still pending, and Acks
\* replayed from the buffer are in its set
BufferedAckTicksTwiceWitness ==
    \E t \in timers :
        /\ t.msg.sender # t.proc
        /\ AckSetOf(t.proc, t.msg.msg_id) # {}
        /\ t.msg.msg_id \notin DOMAIN pending_acks[t.proc]
        /\ logical_clock[t.proc] >= t.msg.timestamp + 3 * clock_increment

\* C22: a try_deliver_message call that returns True leaves every clock and
\* every pending buffer as they were, leaves in the queue the messages
\* behind the head in their order, and leaves the acknowledgment set of
\* every other id as it was.
DeliveryFrameStep(p) ==
    (returned'.proc = p /\ returned'.value = TRUE) =>
        /\ UNCHANGED <<logical_clock, pending_acks>>
        /\ message_queue'[p] = Tail(message_queue[p])
        /\ \A q \in Procs \ {p} :
             /\ message_queue'[q] = message_queue[q]
             /\ acknowledgments'[q] = acknowledgments[q]
        /\ DOMAIN acknowledgments'[p] =
             DOMAIN acknowledgments[p] \ {message_queue[p][1].msg_id}
        /\ \A id \in DOMAIN acknowledgments'[p] :
             acknowledgments'[p][id] = acknowledgments[p][id]

DeliveryFrame == [][\A p \in Procs : DeliveryFrameStep(p)]_vars

\* a call has returned True and left a message in the queue whose
\* acknowledgment set is not empty
DeliveryFrameWitness ==
    \E p \in Procs :
        /\ returned = [proc |-> p, value |-> TRUE]
        /\ message_queue[p] # <<>>
        /\ AckSetOf(p, message_queue[p][1].msg_id) # {}
        /\ logical_clock[p] > 0

====
